---------------------------- MODULE Spec2Model ----------------------------
(***************************************************************************)
(* Model of the XML backup worker (backup_worker.py): the watchdog         *)
(* handler CopyHandler (on_created, copy_file_safely), the directory       *)
(* listing list_files_windows_style / log_counts, and the poll loop of     *)
(* start_backup_worker, with the stop event set by BackupService.SvcStop.  *)
(*                                                                         *)
(* File names are sequences of one-character strings, so that the string   *)
(* operations of the code (lower, startswith, endswith, splitext, the      *)
(* regular expression of extract_base_and_num, str(count)) are computed    *)
(* character by character.  Time is counted in poll ticks of 0.1 s, the    *)
(* argument of time.sleep in the poll loop.                                *)
(***************************************************************************)
EXTENDS Integers, Sequences, FiniteSets, TLC

(***************************************************************************)
(* Characters and strings                                                  *)
(***************************************************************************)

\* Code points of the characters used, as Python compares strings.
Ord(c) ==
    CASE c = " " -> 32 [] c = "$" -> 36 [] c = "." -> 46
      [] c = "0" -> 48 [] c = "1" -> 49 [] c = "2" -> 50
      [] c = "B" -> 66 [] c = "L" -> 76 [] c = "M" -> 77 [] c = "X" -> 88
      [] c = "b" -> 98 [] c = "d" -> 100 [] c = "l" -> 108 [] c = "m" -> 109
      [] c = "p" -> 112 [] c = "t" -> 116 [] c = "x" -> 120 [] c = "~" -> 126

\* str.lower() on one character.
LowerChar(c) ==
    CASE c = "B" -> "b" [] c = "L" -> "l" [] c = "M" -> "m" [] c = "X" -> "x"
      [] OTHER -> c

\* str.lower()
Lower(s) == [i \in 1..Len(s) |-> LowerChar(s[i])]

\* str.startswith(pre)
StartsWith(s, pre) ==
    /\ Len(pre) <= Len(s)
    /\ SubSeq(s, 1, Len(pre)) = pre

\* str.endswith(suf)
EndsWith(s, suf) ==
    /\ Len(suf) <= Len(s)
    /\ SubSeq(s, Len(s) - Len(suf) + 1, Len(s)) = suf

IsDigit(c) == c \in {"0", "1", "2"}

DigitVal(c) == CASE c = "0" -> 0 [] c = "1" -> 1 [] c = "2" -> 2

DigitChar(d) == CASE d = 0 -> "0" [] d = 1 -> "1" [] d = 2 -> "2"
                  [] d = 3 -> "3" [] d = 4 -> "4" [] d = 5 -> "5"
                  [] d = 6 -> "6" [] d = 7 -> "7" [] d = 8 -> "8"
                  [] d = 9 -> "9"

\* int(num) on a string of decimal digits
RECURSIVE ParseInt(_)
ParseInt(s) ==
    IF s = <<>> THEN 0
    ELSE 10 * ParseInt(SubSeq(s, 1, Len(s) - 1)) + DigitVal(s[Len(s)])

\* str(count) for a non-negative integer, as in the f-string of new_dest
RECURSIVE IntToStr(_)
IntToStr(n) ==
    IF n < 10 THEN <<DigitChar(n)>>
    ELSE IntToStr(n \div 10) \o <<DigitChar(n % 10)>>

\* Python's < on strings: lexicographic by code point, a proper prefix first.
RECURSIVE StrLess(_, _)
StrLess(a, b) ==
    IF b = <<>> THEN FALSE
    ELSE IF a = <<>> THEN TRUE
    ELSE IF a[1] # b[1] THEN Ord(a[1]) < Ord(b[1])
    ELSE StrLess(Tail(a), Tail(b))

\* The index of the last "." of s, 0 when there is none.
LastDot(s) ==
    IF \E i \in 1..Len(s) : s[i] = "."
    THEN CHOOSE i \in 1..Len(s) :
            /\ s[i] = "."
            /\ \A j \in (i+1)..Len(s) : s[j] # "."
    ELSE 0

\* os.path.splitext on a file name (no directory part): the extension
\* starts at the last dot, unless only dots precede it in the name.
splitext(name) ==
    LET d == LastDot(name) IN
    IF d > 0 /\ \E j \in 1..(d-1) : name[j] # "."
    THEN <<SubSeq(name, 1, d - 1), SubSeq(name, d, Len(name))>>
    ELSE <<name, <<>>>>


(***************************************************************************)
(* DirectoryLister: list_files_windows_style                               *)
(***************************************************************************)

dotxml == <<".", "x", "m", "l">>

\* The tail of s from position k+1 on matches  (\.[^.]+)$
ExtMatches(s, k) ==
    /\ k + 2 <= Len(s)
    /\ s[k + 1] = "."
    /\ \A j \in (k+2)..Len(s) : s[j] # "."

\* re.match(r"^(.*?)(\d+)?(\.[^.]+)$", s) succeeds with group 1 = s[1..i]
\* and group 2 = s[i+1..i+j] (j = 0: the group does not take part).
ReMatches(s, i, j) ==
    /\ i + j <= Len(s)
    /\ \A k \in (i+1)..(i+j) : IsDigit(s[k])
    /\ ExtMatches(s, i + j)

\* The backtracking of the regular expression.  The lazy (.*?) tries the
\* prefixes from the shortest on: the length of the first for which the
\* rest matches (\d+)?(\.[^.]+)$, or -1 when none does.
RECURSIVE LazyPrefix(_, _)
LazyPrefix(s, i) ==
    IF i > Len(s) THEN -1
    ELSE IF \E j \in 0..(Len(s) - i) : ReMatches(s, i, j) THEN i
    ELSE LazyPrefix(s, i + 1)

\* The greedy (\d+)? after a prefix of length i tries the runs of digits
\* from the longest (j) on, and last the empty one.
RECURSIVE GreedyDigits(_, _, _)
GreedyDigits(s, i, j) ==
    IF j = 0 \/ ReMatches(s, i, j) THEN j
    ELSE GreedyDigits(s, i, j - 1)

\* The groups (base, num, ext) for a prefix of length i and j digits, with
\* num = int(num) if num else 0
Groups(s, i, j) ==
    <<SubSeq(s, 1, i),
      IF j > 0 THEN ParseInt(SubSeq(s, i + 1, i + j)) ELSE 0,
      SubSeq(s, i + j + 1, Len(s))>>

\* extract_base_and_num with a greedy (.*): the prefix takes the digits too
extract_base_and_num_greedy(filename) ==
    IF \E i \in 0..Len(filename) : ExtMatches(filename, i)
    THEN Groups(filename, CHOOSE a \in 0..Len(filename) : ExtMatches(filename, a), 0)
    ELSE <<filename, 0, <<>>>>

\* extract_base_and_num: the groups of the match, or (filename, 0, "")
\* when the name does not match.
extract_base_and_num(filename) ==
    IF LazyPrefix(filename, 0) < 0 THEN <<filename, 0, <<>>>>
    ELSE Groups(filename, LazyPrefix(filename, 0),
                GreedyDigits(filename, LazyPrefix(filename, 0),
                             Len(filename) - LazyPrefix(filename, 0)))

\* Python's < on the key tuples (base, num, ext)
KeyLess(k1, k2) ==
    \/ StrLess(k1[1], k2[1])
    \/ /\ k1[1] = k2[1]
       /\ \/ k1[2] < k2[2]
          \/ /\ k1[2] = k2[2]
             /\ StrLess(k1[3], k2[3])

\* Where files[i] stands in the sorted list: after every element with a
\* smaller key and after the earlier ones with an equal key (sorted() is
\* stable).
SortedPosition(files, i) ==
    1 + Cardinality({ j \in 1..Len(files) :
          \/ KeyLess(extract_base_and_num(files[j]), extract_base_and_num(files[i]))
          \/ /\ j < i
             /\ ~KeyLess(extract_base_and_num(files[i]), extract_base_and_num(files[j])) })

\* sorted(files, key=extract_base_and_num): stable, ascending by key
sorted(files) ==
    [p \in 1..Len(files) |->
        files[CHOOSE i \in 1..Len(files) : SortedPosition(files, i) = p]]

\* The list comprehension of list_files_windows_style: the entries of the
\* enumeration that are regular files and whose lowered name ends with
\* the extension, in enumeration order.
RECURSIVE FilterFiles(_, _)
FilterFiles(entries, extension) ==
    IF entries = <<>> THEN <<>>
    ELSE LET e == Head(entries) IN
         (IF e.isfile /\ EndsWith(Lower(e.name), extension)
          THEN <<e.name>> ELSE <<>>)
         \o FilterFiles(Tail(entries), extension)

\* list_files_windows_style(directory, extension); entries is what
\* os.listdir yields for the directory, in the order it yields it.
list_files_windows_style(entries, extension) ==
    sorted(FilterFiles(entries, extension))

\* count_files_in_directory
count_files_in_directory(entries) ==
    LET files == list_files_windows_style(entries, dotxml)
    IN  <<Len(files), files>>


(***************************************************************************)
(* Bounds, program constants and the inputs the model draws from           *)
(***************************************************************************)

\* Creation events the environment produces in one run.
MaxEvents == 2
\* Entries of the directory handed to list_files_windows_style on its own.
MaxDirLen == 4
\* Direct calls of copy_file_safely in the unit specification.
MaxCalls == 2

\* copy_file_safely(..., retries=3, ...)
Retries == 3
\* copy_file_safely(..., delay=0.5): five poll ticks of 0.1 s
DelayTicks == 5
\* time.sleep(0.1) of the poll loop: one tick
TickLen == 1
\* count_interval of start_backup_worker, in ticks (scaled down from 60 s)
CountInterval == 2

b_xml      == <<"b", ".", "x", "m", "l">>
B_XML      == <<"B", ".", "X", "M", "L">>
b_txt      == <<"b", ".", "t", "x", "t">>
b_tmp      == <<"b", ".", "t", "m", "p">>
lock_b_xml == <<"~", "$", "b", ".", "x", "m", "l">>
d_xml      == <<"d", ".", "x", "m", "l">>
b_1_xml    == <<"b", " ", "1", ".", "x", "m", "l">>
b_2_xml    == <<"b", " ", "2", ".", "x", "m", "l">>
b1_xml     == <<"b", "1", ".", "x", "m", "l">>
b2_xml     == <<"b", "2", ".", "x", "m", "l">>
b10_xml    == <<"b", "1", "0", ".", "x", "m", "l">>
b01_xml    == <<"b", "0", "1", ".", "x", "m", "l">>
subdir     == <<"d">>

\* FileSystemEvent: src_path is given by its components below source_dir
\* (what os.path.relpath(event.src_path, source_dir) is made of).
FileEvents ==
    { [src_path |-> <<b_xml>>,         is_directory |-> FALSE],
      [src_path |-> <<B_XML>>,         is_directory |-> FALSE],
      [src_path |-> <<b_tmp>>,         is_directory |-> FALSE],
      [src_path |-> <<lock_b_xml>>,    is_directory |-> FALSE],
      [src_path |-> <<d_xml>>,         is_directory |-> TRUE],
      [src_path |-> <<subdir, b_xml>>, is_directory |-> FALSE] }

\* What the destination directory may hold when the worker starts
\* (files left by earlier runs), in enumeration order.
InitialDest ==
    { <<>>,
      <<[name |-> b_xml, data |-> 0]>>,
      <<[name |-> b_xml, data |-> 0], [name |-> b_1_xml, data |-> 0]>> }

\* Names a directory listed on its own may hold.
ListNames ==
    { b_xml, b1_xml, b2_xml, b10_xml, b01_xml, b_1_xml, B_XML, b_txt, d_xml }

\* Outcomes of one shutil.copy2 call.
PermissionError == "PermissionError"
CopyOutcomes == {"ok", PermissionError, "Exception"}

\* The messages logged, each with its level.
InfoTemporary   == "info: File temporaneo ignorato"
InfoCopied      == "info: File copiato"
Warning         == "warning: Permesso negato, ritento"
ErrorPermission == "error: Permesso negato dopo tentativi"
ErrorCopy       == "error: Errore nella copia"
ErrorNoSource   == "error: La directory sorgente non esiste"
ErrorNoDest     == "error: La directory di destinazione non esiste"
InfoStarted     == "info: Backup worker avviato"
InfoTerminated  == "info: Backup worker terminato"

(***************************************************************************)
(* State                                                                   *)
(***************************************************************************)
VARIABLES
    source_exists,  \* os.path.isdir(source_dir)
    dest_exists,    \* os.path.isdir(dest_dir)
    sourceDir,      \* entries directly under source_dir, in enumeration order
    destDir,        \* files of dest_dir: [name, data], data = the event copied
    extNames,       \* names created in dest_dir by a writer other than the worker
    wpc,            \* start_backup_worker: Idle, Running, Stopping, Stopped, Failed
    raised,         \* an exception is propagating out of the poll loop
    observer,       \* watchdog Observer: none, started, stopped, joined
    stop,           \* external_stop_event.is_set()
    polled,         \* the poll loop has run its body for the current tick
    sinceCheck,     \* time.time() - last_check, in ticks
    sinceStop,      \* ticks since the stop event was set
    workerLog,      \* messages logged by start_backup_worker itself
    lastListed,     \* what os.listdir gave the last log_counts for each directory
    created,        \* the creation events so far, by number
    fate,           \* what became of each creation event
    queue,          \* the observer's event queue (event numbers)
    hpc,            \* notification thread: idle, or copy (inside the retry loop)
    hid,            \* number of the event being handled (0: a direct call)
    src,            \* copy_file_safely: basename of src
    new_dest,       \* copy_file_safely: the resolved destination name
    attempt,        \* copy_file_safely: the loop variable of the retry loop
    hwait,          \* ticks left of time.sleep(delay)
    callLog,        \* messages logged by the current or last handler call
    outcome,        \* how the current or last copy_file_safely call ended
    dest,           \* copy_file_safely: the dest argument (a name in dest_dir)
    results,        \* outcomes of the shutil.copy2 calls of the current or last call
    destBefore,     \* names in dest_dir when the current or last call began
    probed,         \* whether the call probed dest_dir for existing names
    nCalls,         \* direct calls of copy_file_safely made
    dirEntries,     \* a directory enumeration handed to the lister on its own
    listing         \* what list_files_windows_style returned for it

workerVars == <<wpc, raised, observer, stop, polled, sinceCheck, sinceStop,
                workerLog, lastListed>>
dirVars    == <<source_exists, dest_exists, sourceDir, extNames>>
eventVars  == <<created, fate, queue>>
copyVars   == <<hpc, hid, src, dest, new_dest, attempt, hwait, callLog, outcome,
                results, destBefore, probed>>
listVars   == <<dirEntries, listing>>
vars == <<workerVars, dirVars, destDir, eventVars, copyVars, nCalls, listVars>>

Names(dir) == { dir[i].name : i \in 1..Len(dir) }

\* exists with the probe always answering "no such file"
existsNever(dir, name) == FALSE

\* os.path.exists(path) for a path in dest_dir
exists(dir, name) == name \in Names(dir)

\* os.path.basename / os.path.dirname of a path given by its components
basename(path) == path[Len(path)]
dirname(path) == SubSeq(path, 1, Len(path) - 1)


(***************************************************************************)
(* SafeCopier: CopyHandler.copy_file_safely                                *)
(***************************************************************************)

\* IsTemporary without the '.tmp' test
IsTemporaryPrefixOnly(filename) == StartsWith(filename, <<"~", "$">>)

\* filename.startswith('~$') or filename.endswith('.tmp')
IsTemporary(filename) ==
    \/ StartsWith(filename, <<"~", "$">>)
    \/ EndsWith(filename, <<".", "t", "m", "p">>)

\* The loop  while os.path.exists(new_dest): new_dest = f"{base} {count}{ext}"
RECURSIVE NextFree(_, _, _, _, _)
NextFree(base, ext, cand, count, dir) ==
    IF ~exists(dir, cand) THEN cand
    ELSE NextFree(base, ext, base \o <<" ">> \o IntToStr(count) \o ext,
                  count + 1, dir)

\* ResolveName with count starting at 0
ResolveNameFromZero(destname, dir) ==
    LET se == splitext(destname) IN NextFree(se[1], se[2], destname, 0, dir)

\* Name resolution: splitext(dest), new_dest = dest, count = 1, the loop.
ResolveName(destname, dir) ==
    LET se == splitext(destname) IN NextFree(se[1], se[2], destname, 1, dir)

\* RetryAgain off by one: attempt < retries - 2
RetryAgainOffByOne(a) == a < Retries - 2

\* The test  attempt < retries - 1  that decides between retrying and giving up
RetryAgain(a) == a < Retries - 1

\* Retryable with every failure taken for a permission failure
RetryableAny(res) == res # "ok"

\* except PermissionError: the failures of shutil.copy2 that are retried
Retryable(res) == res = PermissionError

\* Propagates with no  except Exception  clause to catch other failures
PropagatesUncaught(res) == res = "Exception"

\* The failures of shutil.copy2 that leave on_created as an exception:
\* none, except Exception in copy_file_safely (and again in on_created)
\* catches every one of them.
Propagates(res) == FALSE

\* Target resolved again at every attempt
TargetReresolved == ResolveName(dest, destDir)

\* The path shutil.copy2 writes to: new_dest as resolved before the loop
Target == new_dest

\* shutil.copy2(src, new_dest) succeeding: the file at new_dest is created,
\* or replaced when it is there already.
WriteFile(dir, name, data) ==
    IF exists(dir, name)
    THEN [i \in 1..Len(dir) |->
             IF dir[i].name = name THEN [name |-> name, data |-> data] ELSE dir[i]]
    ELSE Append(dir, [name |-> name, data |-> data])

\* The fate of event id becomes f (a direct call has no event).
SetFate(id, f) ==
    fate' = IF id = 0 THEN fate ELSE [fate EXCEPT ![id] = f]

\* copy_file_safely(src, dest) from its entry to the first copy attempt:
\* the skip check and the name resolution.
CopyBegin(id, srcname, destname) ==
    /\ hid' = id
    /\ src' = srcname
    /\ dest' = destname
    /\ destBefore' = Names(destDir)
    /\ results' = <<>>
    /\ attempt' = 0
    /\ hwait' = 0
    /\ IF IsTemporary(srcname)
       THEN /\ callLog' = <<InfoTemporary>>
            /\ outcome' = "Skipped"
            /\ new_dest' = destname
            /\ probed' = FALSE
            /\ hpc' = "idle"
            /\ SetFate(id, "skipped")
       ELSE /\ callLog' = <<>>
            /\ outcome' = "Running"
            /\ new_dest' = ResolveName(destname, destDir)
            /\ probed' = TRUE
            /\ hpc' = "copy"
            /\ SetFate(id, "handling")

\* One iteration of  for attempt in range(retries)  with the outcome of
\* shutil.copy2 chosen by the environment; the sleep after a retried
\* failure is left to the clock.
Attempt ==
    /\ hpc = "copy"
    /\ hwait = 0
    /\ attempt < Retries
    /\ \E res \in CopyOutcomes :
         \/ /\ res = "ok"
            /\ results' = Append(results, res)
            /\ destDir' = WriteFile(destDir, Target, hid)
            /\ callLog' = Append(callLog, InfoCopied)
            /\ outcome' = "Copied"
            /\ hpc' = "idle"
            /\ SetFate(hid, "copied")
            /\ UNCHANGED <<attempt, hwait>>
         \/ /\ res # "ok"
            /\ Retryable(res)
            /\ results' = Append(results, res)
            /\ attempt' = attempt + 1
            /\ destDir' = destDir
            /\ IF RetryAgain(attempt)
               THEN /\ callLog' = Append(callLog, Warning)
                    /\ hwait' = DelayTicks
               ELSE /\ callLog' = Append(callLog, ErrorPermission)
                    /\ hwait' = 0
            /\ IF attempt + 1 < Retries
               THEN UNCHANGED <<outcome, hpc, fate>>
               ELSE \* range(retries) is used up: the function returns
                    /\ outcome' = "Abandoned"
                    /\ hpc' = "idle"
                    /\ SetFate(hid, "exhausted")
         \/ /\ res # "ok"
            /\ ~Retryable(res)
            /\ results' = Append(results, res)
            /\ destDir' = destDir
            /\ IF Propagates(res)
               THEN \* the exception ends the observer's thread
                    /\ callLog' = callLog
                    /\ outcome' = "Raised"
                    /\ hpc' = "dead"
                    /\ SetFate(hid, "crashed")
               ELSE /\ callLog' = Append(callLog, ErrorCopy)
                    /\ outcome' = "Abandoned"
                    /\ hpc' = "idle"
                    /\ SetFate(hid, "failed")
            /\ UNCHANGED <<attempt, hwait>>
    /\ UNCHANGED <<hid, src, dest, new_dest, destBefore, probed>>
    /\ UNCHANGED <<workerVars, dirVars, created, queue, nCalls, listVars>>


(***************************************************************************)
(* EventWatcher: CopyHandler.on_created, run by the observer's thread      *)
(***************************************************************************)

\* Qualifies without .lower(): the extension compared as it is written
QualifiesCaseSensitive(event) ==
    /\ ~event.is_directory
    /\ dirname(event.src_path) = <<>>
    /\ EndsWith(basename(event.src_path), dotxml)

\* Qualifies without the test on os.path.dirname(rel_path)
QualifiesAnyDepth(event) ==
    /\ ~event.is_directory
    /\ EndsWith(Lower(basename(event.src_path)), dotxml)

\* The three filters of on_created: the event passes all of them.
Qualifies(event) ==
    /\ ~event.is_directory
    /\ dirname(event.src_path) = <<>>
    /\ EndsWith(Lower(basename(event.src_path)), dotxml)

\* on_created(event) for the event at the head of the observer's queue,
\* up to the first copy attempt.
Deliver ==
    /\ queue # <<>>
    /\ LET id == Head(queue)
           event == created[id]
       IN  /\ queue' = Tail(queue)
           /\ IF Qualifies(event)
              THEN CopyBegin(id, basename(event.src_path), basename(event.src_path))
              ELSE /\ hid' = id
                   /\ callLog' = <<>>
                   /\ outcome' = "NotCalled"
                   /\ destBefore' = Names(destDir)
                   /\ probed' = FALSE
                   /\ SetFate(id, "ignored")
                   /\ UNCHANGED <<hpc, src, dest, new_dest, attempt, hwait, results>>
    /\ UNCHANGED <<workerVars, dirVars, destDir, created, nCalls, listVars>>

\* Dispatch that does not wait for the on_created call in progress
DispatchWhileCopying ==
    /\ observer = "started"
    /\ Deliver

\* The observer's thread, when it is not inside on_created, takes the next
\* event from its queue and calls on_created: copy_file_safely is called
\* synchronously, so the thread is back only when the copy is over.
Dispatch ==
    /\ observer = "started"
    /\ hpc = "idle"
    /\ Deliver

\* A file or directory is created under source_dir (a name that is there
\* already has been removed and is created anew); the observer, when it is
\* running, queues the event.
Create(event) ==
    /\ source_exists
    /\ wpc \in {"Running", "Failed"}
    /\ Len(created) < MaxEvents
    /\ LET name == event.src_path[1]
           top == Len(event.src_path) = 1
       IN  /\ ~top => \E i \in 1..Len(sourceDir) :
                         sourceDir[i].name = name /\ ~sourceDir[i].isfile
           /\ sourceDir' = IF top /\ name \notin Names(sourceDir)
                           THEN Append(sourceDir, [name |-> name,
                                                   isfile |-> ~event.is_directory])
                           ELSE sourceDir
    /\ created' = Append(created, event)
    /\ IF observer = "started"
       THEN /\ queue' = Append(queue, Len(created) + 1)
            /\ fate' = Append(fate, "queued")
       ELSE /\ queue' = queue
            /\ fate' = Append(fate, "unwatched")
    /\ UNCHANGED <<workerVars, source_exists, dest_exists, extNames, destDir,
                   copyVars, nCalls, listVars>>


(***************************************************************************)
(* ReconciliationLoop and WorkerLifecycle: log_counts, start_backup_worker *)
(***************************************************************************)

Min(a, b) == IF a < b THEN a ELSE b
Max(a, b) == IF a > b THEN a ELSE b

\* The longest a stop can take: one tick of the poll loop and the sleeps
\* of a copy that retries to the end.
StopBudget == TickLen + (Retries - 1) * DelayTicks

\* What os.listdir and os.path.isfile give for the destination directory.
DestEntries(dir) == [i \in 1..Len(dir) |-> [name |-> dir[i].name, isfile |-> TRUE]]

\* log_counts: the counts and the ordered listings of both directories
log_counts(srcEntries, dstEntries) ==
    LET s == count_files_in_directory(srcEntries)
        d == count_files_in_directory(dstEntries)
    IN  [src_count |-> s[1], dst_count |-> d[1], src_files |-> s[2], dst_files |-> d[2]]

\* What the last call of log_counts logged (nothing before the first call:
\* the counts of two empty directories stand for that).
lastCounts == log_counts(lastListed.src, lastListed.dst)

\* ReconDue one tick late
ReconDueLate(elapsed) == elapsed > CountInterval + TickLen

\* The test  time.time() - last_check > count_interval
ReconDue(elapsed) == elapsed > CountInterval

\* Validate without the check of dest_dir
ValidateSourceOnly == IF ~source_exists THEN "source" ELSE "ok"

\* The two os.path.isdir checks, in the order of the code: which
\* directory is reported missing, if any.
Validate ==
    IF ~source_exists THEN "source"
    ELSE IF ~dest_exists THEN "dest"
    ELSE "ok"

\* StopObserved with no stop event passed (external_stop_event=None)
StopObservedNever == FALSE

\* The test  external_stop_event and external_stop_event.is_set()
StopObserved == stop

\* start_backup_worker from its entry to the first time.sleep of the loop:
\* the two directory checks, the start banner, observer.start().
Start ==
    /\ wpc = "Idle"
    /\ IF Validate = "source"
       THEN /\ workerLog' = Append(workerLog, ErrorNoSource)
            /\ wpc' = "Failed"
            /\ UNCHANGED <<observer, polled, sinceCheck>>
       ELSE IF Validate = "dest"
       THEN /\ workerLog' = Append(workerLog, ErrorNoDest)
            /\ wpc' = "Failed"
            /\ UNCHANGED <<observer, polled, sinceCheck>>
       ELSE /\ workerLog' = Append(workerLog, InfoStarted)
            /\ observer' = "started"
            /\ wpc' = "Running"
            /\ sinceCheck' = 0
            /\ polled' = TRUE
    /\ UNCHANGED <<raised, stop, sinceStop, lastListed>>
    /\ UNCHANGED <<dirVars, destDir, eventVars, copyVars, nCalls, listVars>>

\* One iteration of the poll loop after time.sleep(0.1) has returned: the
\* stop check, then the reconciliation when it is due.  Leaving the loop
\* (break, or an exception of log_counts) enters the finally block, whose
\* observer.stop() is done here; observer.join() is Join.
PollTick ==
    /\ wpc = "Running"
    /\ ~polled
    /\ polled' = TRUE
    /\ IF StopObserved
       THEN /\ wpc' = "Stopping"
            /\ observer' = "stopped"
            /\ UNCHANGED <<raised, sinceCheck, lastListed>>
       ELSE IF ReconDue(sinceCheck)
       THEN \/ \* log_counts lists both directories and logs lastCounts'
               /\ lastListed' = [src |-> sourceDir, dst |-> DestEntries(destDir)]
               /\ sinceCheck' = 0
               /\ UNCHANGED <<wpc, observer, raised>>
            \/ \* os.listdir raises (the directory is gone or unreadable)
               /\ raised' = TRUE
               /\ wpc' = "Stopping"
               /\ observer' = "stopped"
               /\ UNCHANGED <<sinceCheck, lastListed>>
       ELSE UNCHANGED <<wpc, observer, raised, sinceCheck, lastListed>>
    /\ UNCHANGED <<stop, sinceStop, workerLog>>
    /\ UNCHANGED <<dirVars, destDir, eventVars, copyVars, nCalls, listVars>>

\* The end of the finally block: observer.join() has returned, the
\* termination banner is logged and start_backup_worker returns (or lets
\* the exception of the loop go on to its caller).
Finish ==
    /\ wpc = "Stopping"
    /\ observer' = "joined"
    /\ workerLog' = Append(workerLog, InfoTerminated)
    /\ wpc' = "Stopped"
    /\ UNCHANGED <<raised, stop, polled, sinceCheck, sinceStop, lastListed>>
    /\ UNCHANGED <<dirVars, destDir, eventVars, copyVars, nCalls, listVars>>

\* Join that does not wait for the observer's thread
JoinWithoutWaiting == Finish

\* Join placed after the loop instead of in a finally block
JoinUnlessRaised ==
    /\ ~raised
    /\ hpc # "copy"
    /\ Finish

\* The rest of the finally block: observer.join() returns once the
\* observer's thread is out of on_created, then the end of the function.
Join ==
    /\ hpc # "copy"
    /\ Finish

\* BackupService.SvcStop: self.stop_event.set()
SetStop ==
    /\ ~stop
    /\ wpc \in {"Idle", "Running"}
    /\ stop' = TRUE
    /\ sinceStop' = 0
    /\ UNCHANGED <<wpc, raised, observer, polled, sinceCheck, workerLog, lastListed>>
    /\ UNCHANGED <<dirVars, destDir, eventVars, copyVars, nCalls, listVars>>

\* 0.1 s pass.  Computation takes no time: the poll loop runs its body at
\* every tick, a copy attempt that is due is made, and a join that can
\* return returns, before the clock moves on.
Tick ==
    /\ wpc \in {"Running", "Stopping"}
    /\ wpc = "Running" => polled
    /\ ~(hpc = "copy" /\ hwait = 0)
    /\ ~(wpc = "Stopping" /\ hpc # "copy")
    /\ polled' = FALSE
    /\ sinceCheck' = IF wpc = "Running"
                     THEN Min(sinceCheck + TickLen, CountInterval + 3)
                     ELSE sinceCheck
    /\ sinceStop' = IF stop THEN Min(sinceStop + TickLen, StopBudget + 2) ELSE sinceStop
    /\ hwait' = Max(hwait - TickLen, 0)
    /\ UNCHANGED <<wpc, raised, observer, stop, workerLog, lastListed>>
    /\ UNCHANGED <<dirVars, destDir, eventVars, nCalls, listVars>>
    /\ UNCHANGED <<hpc, hid, src, dest, new_dest, attempt, callLog, outcome,
                   results, destBefore, probed>>

WorkerInit ==
    /\ wpc = "Idle"
    /\ raised = FALSE
    /\ observer = "none"
    /\ stop = FALSE
    /\ polled = TRUE
    /\ sinceCheck = 0
    /\ sinceStop = 0
    /\ workerLog = <<>>
    /\ lastListed = [src |-> <<>>, dst |-> <<>>]

CopierInit ==
    /\ created = <<>>
    /\ fate = <<>>
    /\ queue = <<>>
    /\ hpc = "idle"
    /\ hid = 0
    /\ src = <<>>
    /\ new_dest = <<>>
    /\ attempt = 0
    /\ hwait = 0
    /\ callLog = <<>>
    /\ outcome = "NotCalled"
    /\ dest = <<>>
    /\ results = <<>>
    /\ destBefore = {}
    /\ probed = FALSE
    /\ nCalls = 0

Init ==
    /\ source_exists \in BOOLEAN
    /\ dest_exists \in BOOLEAN
    /\ sourceDir = IF source_exists
                   THEN <<[name |-> subdir, isfile |-> FALSE]>> ELSE <<>>
    /\ destDir \in IF dest_exists THEN InitialDest ELSE {<<>>}
    /\ WorkerInit
    /\ CopierInit
    /\ extNames = {}
    /\ dirEntries = <<>>
    /\ listing = [done |-> FALSE, files |-> <<>>]

Next ==
    \/ Start
    \/ PollTick
    \/ Join
    \/ SetStop
    \/ Tick
    \/ \E event \in FileEvents : Create(event)
    \/ Dispatch
    \/ Attempt

\* The worker as BackupService runs it, the only writer of dest_dir.
Spec == Init /\ [][Next]_vars

\* Creation events in one run of the fairly scheduled worker.
MaxLiveEvents == 1

LiveNext ==
    \/ Start
    \/ PollTick
    \/ Join
    \/ SetStop
    \/ Tick
    \/ \E event \in FileEvents : Len(created) < MaxLiveEvents /\ Create(event)
    \/ Dispatch
    \/ Attempt

\* The worker with its threads scheduled fairly: the poll loop, the
\* observer's thread and the clock each go on whenever they can.
FairSpec ==
    /\ Init
    /\ [][LiveNext]_vars
    /\ WF_vars(Tick)
    /\ WF_vars(PollTick)
    /\ WF_vars(Join)
    /\ WF_vars(Dispatch)
    /\ WF_vars(Attempt)

(***************************************************************************)
(* copy_file_safely called on its own                                      *)
(***************************************************************************)

\* A direct call copy_file_safely(src, dest) with the default retries, delay
UnitCall(srcname, destname) ==
    /\ hpc = "idle"
    /\ nCalls < MaxCalls
    /\ nCalls' = nCalls + 1
    /\ CopyBegin(0, srcname, destname)
    /\ UNCHANGED <<workerVars, dirVars, destDir, created, queue, listVars>>

\* time.sleep(delay) of a retrying call goes on for one more tick
Sleep ==
    /\ hpc = "copy"
    /\ hwait > 0
    /\ hwait' = hwait - TickLen
    /\ UNCHANGED <<workerVars, dirVars, destDir, eventVars, nCalls, listVars>>
    /\ UNCHANGED <<hpc, hid, src, dest, new_dest, attempt, callLog, outcome,
                   results, destBefore, probed>>

UnitSources == {b_xml, B_XML, lock_b_xml, b_tmp, b_txt}

CopyInit ==
    /\ source_exists = TRUE
    /\ dest_exists = TRUE
    /\ sourceDir = <<>>
    /\ destDir \in InitialDest
    /\ WorkerInit
    /\ CopierInit
    /\ extNames = {}
    /\ dirEntries = <<>>
    /\ listing = [done |-> FALSE, files |-> <<>>]

CopyNext ==
    \/ \E s \in UnitSources : \E d \in {s, b_xml} : UnitCall(s, d)
    \/ Attempt
    \/ Sleep

CopySpec == CopyInit /\ [][CopyNext]_vars

(***************************************************************************)
(* copy_file_safely called while another process writes to dest_dir        *)
(***************************************************************************)

\* Files the other writer creates during one run.
MaxExternal == 2

\* The names the other writer uses.
ExternalNames == {b_xml, b_1_xml, b_2_xml}

\* Another process creates a file in dest_dir.
ExternalWrite(name) ==
    /\ Cardinality(extNames) < MaxExternal
    /\ ~exists(destDir, name)
    /\ destDir' = Append(destDir, [name |-> name, data |-> 0])
    /\ extNames' = extNames \cup {name}
    /\ UNCHANGED <<workerVars, source_exists, dest_exists, sourceDir, eventVars,
                   copyVars, nCalls, listVars>>

RaceNext ==
    \/ \E s \in {b_xml, B_XML} : UnitCall(s, b_xml)
    \/ Attempt
    \/ Sleep
    \/ \E name \in ExternalNames : ExternalWrite(name)

RaceSpec == CopyInit /\ [][RaceNext]_vars

(***************************************************************************)
(* list_files_windows_style called on its own                              *)
(***************************************************************************)

ListEntries == { [name |-> n, isfile |-> (n # d_xml)] : n \in ListNames }

\* The enumerations os.listdir can yield: the entries of a directory of
\* at most MaxDirLen entries, in any order.
Enumerations ==
    UNION { { e \in [1..n -> ListEntries] :
                \A i, j \in 1..n : i # j => e[i].name # e[j].name }
            : n \in 0..MaxDirLen }

ListCall ==
    /\ ~listing.done
    /\ listing' = [done |-> TRUE, files |-> list_files_windows_style(dirEntries, dotxml)]
    /\ UNCHANGED <<workerVars, dirVars, destDir, eventVars, copyVars, nCalls, dirEntries>>

ListInit ==
    /\ source_exists = TRUE
    /\ dest_exists = TRUE
    /\ sourceDir = <<>>
    /\ destDir = <<>>
    /\ WorkerInit
    /\ CopierInit
    /\ extNames = {}
    /\ dirEntries \in Enumerations
    /\ listing = [done |-> FALSE, files |-> <<>>]

ListNext == ListCall

ListSpec == ListInit /\ [][ListNext]_vars


(***************************************************************************)
(* Properties                                                              *)
(***************************************************************************)

\* A creation event of a regular file directly in the source directory
\* whose name ends in .xml, whatever the case of the letters.
IsTopLevelXml(event) ==
    /\ ~event.is_directory
    /\ Len(event.src_path) = 1
    /\ LET n == event.src_path[1] IN
       /\ Len(n) >= 4
       /\ [i \in 1..4 |-> LowerChar(n[Len(n) - 4 + i])] = <<".", "x", "m", "l">>

\* A name of a temporary or lock artifact: ~$* or *.tmp
TempName(n) ==
    \/ Len(n) >= 2 /\ n[1] = "~" /\ n[2] = "$"
    \/ Len(n) >= 4 /\ n[Len(n) - 3] = "." /\ n[Len(n) - 2] = "t"
                   /\ n[Len(n) - 1] = "m" /\ n[Len(n)] = "p"

\* C1: under the single-writer assumption no file of the destination
\* directory is ever overwritten: every file stays as it is in every step,
\* and a successful copy creates a path that existed neither when the
\* copy_file_safely call began nor just before the copy.
C1_NoOverwrite ==
    [][ /\ \A i \in 1..Len(destDir) :
              i <= Len(destDir') /\ destDir'[i] = destDir[i]
        /\ (outcome' = "Copied" /\ results' # results) =>
              /\ new_dest' \notin destBefore'
              /\ new_dest' \notin Names(destDir)
              /\ Len(destDir') = Len(destDir) + 1
              /\ destDir'[Len(destDir')] = [name |-> new_dest', data |-> hid'] ]_vars

\* C1 witness: the second of two same-named files is copied, after a
\* permission retry, beside the first one's copy.
C1_Witness ==
    /\ outcome = "Copied"
    /\ hid = 2
    /\ created[1].src_path = created[2].src_path
    /\ fate[1] = "copied"
    /\ Len(results) > 1
    /\ new_dest # dest
    /\ dest \in destBefore

\* The copies of the file of event id in the destination directory.
Copies(id) == Cardinality({ i \in 1..Len(destDir) : destDir[i].data = id })

\* Event id is the creation of a non-temporary .xml file directly in the
\* source directory while the worker is running.
IsUpload(id) ==
    /\ id <= Len(created)
    /\ IsTopLevelXml(created[id])
    /\ ~TempName(created[id].src_path[1])
    /\ fate[id] # "unwatched"

\* C2 as stated: once the handling of such a file is over (or the worker
\* has stopped), there is exactly one copy of it, or the permission retries
\* were exhausted and there is none.
C2_ExactlyOneOrExhausted ==
    \A id \in 1..Len(created) :
       (IsUpload(id) /\ (fate[id] \notin {"queued", "handling"} \/ wpc = "Stopped")) =>
          \/ Copies(id) = 1
          \/ fate[id] = "exhausted" /\ Copies(id) = 0

\* Event id is settled: copied once; or abandoned with no copy, the
\* retries exhausted or a failure of another kind met; or still queued
\* with the observer stopped.
Settled(id) ==
    /\ id <= Len(created)
    /\ \/ fate[id] = "copied" /\ Copies(id) = 1
       \/ fate[id] \in {"exhausted", "failed"} /\ Copies(id) = 0
       \/ fate[id] = "queued" /\ observer \in {"stopped", "joined"} /\ Copies(id) = 0

\* C2 amended: of every such file there is never more than one copy, and
\* eventually it is settled: exactly one copy; or none, the copy abandoned
\* with an error logged (permission retries exhausted, or another failure);
\* or none, the observer stopped before the event was dispatched.
C2_ExactlyOneOrAbandoned ==
    /\ [](\A id \in 1..Len(created) :
             /\ Copies(id) <= 1
             /\ Copies(id) = 1 <=> fate[id] = "copied")
    /\ [][\A id \in 1..Len(created) :
             (fate[id] = "handling" /\ fate'[id] \in {"exhausted", "failed"}) =>
                callLog'[Len(callLog')] \in {ErrorPermission, ErrorCopy}]_vars
    /\ \A id \in 1..MaxLiveEvents : IsUpload(id) ~> Settled(id)

\* C2 witness: B.XML, created while the worker ran, was copied exactly once,
\* at the second attempt after a denied permission.
C2_Witness ==
    /\ IsUpload(1) /\ created[1].src_path = <<B_XML>>
    /\ fate[1] = "copied" /\ Copies(1) = 1
    /\ results = <<PermissionError, "ok">>

\* C3: on_created calls copy_file_safely exactly for the events of regular
\* files directly under the watched root with a .xml name (any case); for
\* every other event nothing is attempted and the destination is unchanged,
\* and every file written to the destination comes from a qualifying event.
C3_OnlyQualifying ==
    [][ /\ \A id \in 1..Len(created) :
              (fate[id] = "queued" /\ fate'[id] # "queued") =>
                 IF IsTopLevelXml(created[id])
                 THEN /\ fate'[id] \in {"handling", "skipped"}
                      /\ outcome' \in {"Running", "Skipped"}
                      /\ hid' = id
                 ELSE /\ fate'[id] = "ignored"
                      /\ outcome' = "NotCalled"
                      /\ hpc' = "idle"
                      /\ results' = results
                      /\ destDir' = destDir
        /\ \A id \in 1..Len(created) : fate[id] = "ignored" => fate'[id] = "ignored"
        /\ \A i \in 1..Len(destDir') :
              destDir'[i].data # 0 => IsTopLevelXml(created'[destDir'[i].data])
        /\ hpc' = "copy" => IsTopLevelXml(created'[hid']) ]_vars

\* C3 witness: a file in a subdirectory was ignored and a file named B.XML
\* was copied.
C3_Witness ==
    \E i, j \in 1..Len(created) :
       /\ created[i].src_path = <<subdir, b_xml>>
       /\ fate[i] = "ignored"
       /\ created[j].src_path = <<B_XML>>
       /\ fate[j] = "copied"

\* C4: a call of copy_file_safely on a source named ~$* or *.tmp ends at
\* once as Skipped: one info message, no probe of the destination, no copy
\* attempt, no retry, the destination unchanged.
C4_TemporarySkipped ==
    [][ /\ (nCalls' = nCalls + 1 /\ TempName(src')) =>
              /\ outcome' = "Skipped"
              /\ callLog' = <<InfoTemporary>>
              /\ ~probed'
              /\ results' = <<>>
              /\ hpc' = "idle"
              /\ destDir' = destDir
        /\ outcome' = "Skipped" =>
              /\ TempName(src')
              /\ hpc' = "idle"
              /\ results' = <<>>
              /\ callLog' = <<InfoTemporary>>
              /\ destDir' = destDir ]_vars

\* C4 witness: ~$b.xml, whose extension qualifies, was skipped with b.xml
\* present in the destination.
C4_Witness ==
    /\ outcome = "Skipped"
    /\ src = lock_b_xml
    /\ b_xml \in Names(destDir)

\* "<base> n<ext>" for the destination candidate d
Suffixed(d, n) == splitext(d)[1] \o <<" ">> \o IntToStr(n) \o splitext(d)[2]

\* The first free candidate for d among the names taken.
FirstFree(d, taken) ==
    IF d \notin taken THEN d
    ELSE LET n == CHOOSE k \in 1..(Cardinality(taken) + 1) :
                     /\ Suffixed(d, k) \notin taken
                     /\ \A m \in 1..(k - 1) : Suffixed(d, m) \in taken
         IN  Suffixed(d, n)

\* C5: name resolution picks the first free candidate, the candidate itself
\* or "<base> n<ext>" for the smallest n >= 1 that is free; with the base
\* name taken that is "<base> 1<ext>", with that taken too "<base> 2<ext>";
\* and a successful copy lands there.
C5_FirstFree ==
    /\ probed => new_dest = FirstFree(dest, destBefore)
    /\ (probed /\ dest = b_xml /\ destBefore = {b_xml}) => new_dest = b_1_xml
    /\ (probed /\ dest = b_xml /\ destBefore = {b_xml, b_1_xml}) => new_dest = b_2_xml
    /\ outcome = "Copied" =>
          /\ new_dest \in Names(destDir)
          /\ Names(destDir) = destBefore \cup {new_dest}

\* C5 witness: with b.xml and "b 1.xml" present a copy of b.xml landed at
\* "b 2.xml".
C5_Witness ==
    /\ outcome = "Copied"
    /\ dest = b_xml
    /\ destBefore = {b_xml, b_1_xml}
    /\ new_dest = b_2_xml

Repeat(x, k) == [i \in 1..k |-> x]

\* C6: k < retries permission failures in a row and then a free file give a
\* copy on attempt k+1; retries permission failures give Abandoned after
\* exactly retries attempts, the error logged after the last of them.
C6_RetryBound ==
    /\ Len(results) <= Retries
    /\ \A k \in 0..(Retries - 1) :
          /\ (results = Repeat(PermissionError, k) /\ outcome = "Running") =>
                 /\ hpc = "copy"
                 /\ attempt = k
                 /\ callLog = Repeat(Warning, k)
          /\ results = Append(Repeat(PermissionError, k), "ok") =>
                 /\ outcome = "Copied"
                 /\ hpc = "idle"
                 /\ new_dest \in Names(destDir)
                 /\ callLog = Append(Repeat(Warning, k), InfoCopied)
    /\ (Len(results) >= Retries /\ \A i \in 1..Retries : results[i] = PermissionError) =>
          /\ outcome = "Abandoned"
          /\ hpc = "idle"
          /\ Len(results) = Retries
          /\ callLog = Append(Repeat(Warning, Retries - 1), ErrorPermission)
          /\ Names(destDir) = destBefore

\* C6 witness: a call was abandoned after three permission failures.
C6_Witness ==
    /\ results = Repeat(PermissionError, Retries)
    /\ outcome = "Abandoned"
    /\ nCalls = 1


\* The decomposition of a file name into (prefix, trailingNumber,
\* extension): the extension starts at the last dot, trailingNumber is the
\* longest run of digits right before it (0 when there is none).
NameKey(name) ==
    LET d == LastDot(name)
        r == CHOOSE k \in 1..d :
                /\ \A m \in k..(d - 1) : IsDigit(name[m])
                /\ k > 1 => ~IsDigit(name[k - 1])
    IN  <<SubSeq(name, 1, r - 1),
          IF r < d THEN ParseInt(SubSeq(name, r, d - 1)) ELSE 0,
          SubSeq(name, d, Len(name))>>

\* Key k1 comes strictly before key k2: prefix, then number, then extension.
KeyBefore(k1, k2) ==
    IF k1[1] # k2[1] THEN StrLess(k1[1], k2[1])
    ELSE IF k1[2] # k2[2] THEN k1[2] < k2[2]
    ELSE StrLess(k1[3], k2[3])

\* The regular files among the entries whose name ends in .xml, any case.
XmlFiles(entries) ==
    { entries[i].name : i \in { k \in 1..Len(entries) :
          /\ entries[k].isfile
          /\ IsTopLevelXml([src_path |-> <<entries[k].name>>, is_directory |-> FALSE]) } }

\* C7: list_files_windows_style returns exactly the regular .xml files
\* (any case) of the directory, each once, in ascending order of (prefix,
\* trailingNumber, extension); so b.xml, b1.xml, b2.xml, b10.xml.
C7_NaturalOrder ==
    listing.done =>
       /\ { listing.files[i] : i \in 1..Len(listing.files) } = XmlFiles(dirEntries)
       /\ Len(listing.files) = Cardinality(XmlFiles(dirEntries))
       /\ \A i, j \in 1..Len(listing.files) :
             i < j => ~KeyBefore(NameKey(listing.files[j]), NameKey(listing.files[i]))
       /\ XmlFiles(dirEntries) = {b_xml, b1_xml, b2_xml, b10_xml} =>
             listing.files = <<b_xml, b1_xml, b2_xml, b10_xml>>

\* C7 witness: the directory enumerated as b10.xml, b2.xml, b1.xml, b.xml
\* was listed as b.xml, b1.xml, b2.xml, b10.xml.
C7_Witness ==
    /\ listing.done
    /\ [i \in 1..Len(dirEntries) |-> dirEntries[i].name]
          = <<b10_xml, b2_xml, b1_xml, b_xml>>
    /\ listing.files = <<b_xml, b1_xml, b2_xml, b10_xml>>

\* C8: with the source or the destination directory missing,
\* start_backup_worker logs the error naming the missing directory and
\* returns: it never runs, the observer is never started, no banner is
\* logged, no event is handled and no file is copied.
C8_MissingDirectory ==
    (~source_exists \/ ~dest_exists) =>
       /\ wpc \in {"Idle", "Failed"}
       /\ observer = "none"
       /\ workerLog = IF wpc = "Idle" THEN <<>>
                      ELSE IF ~source_exists THEN <<ErrorNoSource>>
                      ELSE <<ErrorNoDest>>
       /\ queue = <<>>
       /\ \A id \in 1..Len(created) : fate[id] = "unwatched"
       /\ hpc = "idle"
       /\ outcome = "NotCalled"
       /\ \A i \in 1..Len(destDir) : destDir[i].data = 0

\* C8 witness: the worker returned for want of the destination directory,
\* and files created in the source afterwards stay unwatched.
C8_Witness ==
    /\ source_exists
    /\ ~dest_exists
    /\ wpc = "Failed"
    /\ Len(created) = MaxEvents
    /\ created[1].src_path = <<b_xml>>

\* C9 as stated: while Running, never more than the interval has passed
\* since the last reconciliation (or the start).
C9_EveryInterval ==
    wpc = "Running" => sinceCheck <= CountInterval

\* C9 amended: while Running, a reconciliation is made at the first poll
\* tick at which more than the interval has passed since the last one (or
\* the start) and at no other: the gap is one tick more than the interval.
C9_FirstTickPastInterval ==
    [][ /\ wpc' = "Running" => sinceCheck' <= CountInterval + TickLen
        /\ (wpc' = "Running" /\ polled') => sinceCheck' <= CountInterval
        /\ (wpc = "Running" /\ sinceCheck' < sinceCheck) =>
              /\ sinceCheck = CountInterval + TickLen
              /\ sinceCheck' = 0
              /\ lastListed' = [src |-> sourceDir, dst |-> DestEntries(destDir)]
        /\ lastListed' # lastListed => sinceCheck' = 0 /\ sinceCheck > CountInterval ]_vars

\* C9 witness: after a reconciliation that counted a copied file, the
\* interval has passed again and the next reconciliation is due.
C9_Witness ==
    /\ wpc = "Running"
    /\ ~polled
    /\ lastCounts.dst_count > 0
    /\ lastCounts.src_count > 0
    /\ sinceCheck = CountInterval + TickLen

\* C10 as stated: once the stop event is set, the worker is Stopped within
\* one poll tick, whatever is in progress.
C10_StoppedWithinTick ==
    (stop /\ wpc \in {"Running", "Stopping"}) => sinceStop <= TickLen

\* C10 amended: once the stop event is set, the poll loop leaves Running
\* within one poll tick; the worker is Stopped as soon as the on_created
\* call in progress has returned, at the latest one tick plus
\* (retries - 1) * delay after the stop event was set.
C10_StoppedWithinBudget ==
    /\ (stop /\ wpc = "Running") => sinceStop <= TickLen
    /\ (stop /\ wpc = "Stopping") => sinceStop <= StopBudget
    /\ wpc = "Stopped" =>
          /\ observer = "joined"
          /\ hpc = "idle"
          /\ workerLog[Len(workerLog)] = InfoTerminated

\* C10 witness: the join waits for a retrying copy, the whole budget used.
C10_Witness ==
    /\ stop
    /\ wpc = "Stopping"
    /\ hpc = "copy"
    /\ sinceStop = StopBudget

\* C11 as stated: the worker leaves Running only because the stop event is
\* set, and no exception of the poll loop goes on to the caller.
C11_OnlyStopEndsRunning ==
    /\ wpc \in {"Stopping", "Stopped"} => stop
    /\ ~raised

\* C12: an exception raised by the copy never leaves on_created: the
\* handling of an event that does not end in a copy ends with an error
\* logged, the observer's thread alive and out of on_created, and the
\* worker, the observer and the queue as they were; and every event that
\* leaves the queue, also after a failed or abandoned one, is handled by
\* the same rules: a qualifying one starts a fresh copy_file_safely call.
C12_FailuresContained ==
    [][ /\ hpc' # "dead"
        /\ \A id \in 1..Len(created) :
              (fate[id] = "handling" /\ fate'[id] \notin {"handling", "copied"}) =>
                 /\ fate'[id] \in {"exhausted", "failed"}
                 /\ outcome' = "Abandoned"
                 /\ callLog'[Len(callLog')] \in {ErrorPermission, ErrorCopy}
                 /\ hpc' = "idle"
                 /\ <<wpc, raised, observer, queue>>' = <<wpc, raised, observer, queue>>
        /\ \A id \in 1..Len(created) :
              (fate[id] = "queued" /\ fate'[id] # "queued") =>
                 IF IsTopLevelXml(created[id])
                 THEN IF TempName(created[id].src_path[1])
                      THEN fate'[id] = "skipped"
                      ELSE /\ fate'[id] = "handling"
                           /\ attempt' = 0 /\ results' = <<>> /\ callLog' = <<>>
                           /\ new_dest' = FirstFree(created[id].src_path[1],
                                                    Names(destDir))
                 ELSE fate'[id] = "ignored" ]_vars

\* C12 witness: the copy of the first event failed with an error other
\* than a denied permission, and the second event was copied after it.
C12_Witness ==
    /\ Len(created) = 2
    /\ fate[1] = "failed"
    /\ fate[2] = "copied"
    /\ Copies(2) = 1
    /\ wpc = "Running"
    /\ observer = "started"

\* C13: once the stop event is set (it is never cleared) while the worker
\* runs, the worker eventually is Stopped, the threads being scheduled
\* fairly: the copy in progress ends, and the join returns.
C13_StopLeadsToStopped ==
    (stop /\ wpc \in {"Running", "Stopping"}) ~> (wpc = "Stopped")

\* C13 witness: the worker is Stopped after a stop event that found a copy
\* retrying, which went on to use up its retries.
C13_Witness ==
    /\ wpc = "Stopped"
    /\ stop
    /\ sinceStop > TickLen
    /\ Len(created) = 1
    /\ fate[1] = "exhausted"
    /\ results = Repeat(PermissionError, Retries)

\* The termination banner has been logged.
Terminated == \E i \in 1..Len(workerLog) : workerLog[i] = InfoTerminated

\* C14: while a copy is in flight the worker that left its loop stays in
\* the join and logs no termination; when the termination is logged the
\* observer is joined and no copy is in flight; and after it nothing is
\* written to the destination directory and no event changes its fate.
C14_JoinBeforeTermination ==
    [][ /\ (wpc = "Stopping" /\ hpc = "copy") =>
              (wpc' = "Stopping" /\ observer' = "stopped" /\ ~Terminated')
        /\ Terminated' =>
              (wpc' = "Stopped" /\ observer' = "joined" /\ hpc' # "copy")
        /\ Terminated =>
              /\ destDir' = destDir
              /\ fate' = fate
              /\ <<hpc, results, callLog, queue>>' = <<hpc, results, callLog, queue>> ]_vars

\* C14 witness: the stop event was observed while a copy was waiting to
\* retry; the copy succeeded at a later attempt, and only then the worker
\* logged its termination.
C14_Witness ==
    /\ wpc = "Stopped"
    /\ Terminated
    /\ sinceStop > TickLen + DelayTicks
    /\ hid = 1
    /\ fate[1] = "copied"
    /\ results = <<PermissionError, PermissionError, "ok">>

\* C15: a failure of shutil.copy2 that is not a denied permission is the
\* last attempt of its call: the outcome is Abandoned, nothing was written,
\* and the log of the call holds one error, the one of this failure, after
\* the warnings of the denied attempts before it (none if it is the first).
C15_OtherFailureAbandons ==
    \A i \in 1..Len(results) :
       results[i] = "Exception" =>
          /\ i = Len(results)
          /\ \A j \in 1..(i - 1) : results[j] = PermissionError
          /\ outcome = "Abandoned"
          /\ hpc = "idle"
          /\ hwait = 0
          /\ callLog = Repeat(Warning, i - 1) \o <<ErrorCopy>>
          /\ Names(destDir) = destBefore

\* C15 witness: the first attempt failed with such a failure while b.xml
\* was in the destination: one attempt, one error, Abandoned.
C15_Witness ==
    /\ results = <<"Exception">>
    /\ outcome = "Abandoned"
    /\ callLog = <<ErrorCopy>>
    /\ new_dest = b_1_xml
    /\ destBefore = {b_xml}

\* C16: while a call is in its retry loop the resolved path stays the one
\* found before the first attempt, the first free candidate in the
\* directory as it was then, whatever another writer adds meanwhile; and a
\* successful attempt writes to that path and to no other.
C16_ResolvedOnce ==
    [][ hpc = "copy" =>
          /\ new_dest = FirstFree(dest, destBefore)
          /\ new_dest' = new_dest
          /\ Len(results') > Len(results) =>
                IF outcome' = "Copied"
                THEN /\ Names(destDir') = Names(destDir) \cup {new_dest}
                     /\ \A k \in 1..Len(destDir) :
                           destDir[k].name # new_dest => destDir'[k] = destDir[k]
                     /\ \E k \in 1..Len(destDir') :
                           destDir'[k] = [name |-> new_dest, data |-> hid]
                     /\ Len(destDir') = Cardinality(Names(destDir'))
                ELSE destDir' = destDir ]_vars

\* C16 witness: between a denied attempt and the retry another writer
\* created the resolved path; the retry went to that same path.
C16_Witness ==
    /\ outcome = "Copied"
    /\ results = <<PermissionError, "ok">>
    /\ new_dest \in extNames
    /\ new_dest \notin destBefore

\* The events the observer queued, in the order it queued them.
Watched == { id \in 1..Len(created) : fate[id] # "unwatched" }

\* C17: copies are serialized on the observer's thread.  An event leaves
\* the queue only when no copy_file_safely call is in progress, it is the
\* head of the queue, and every event queued before it has left; while a
\* call is in progress the events behind it stay queued in their order and
\* the destination changes only by that call writing its resolved path;
\* and a step of the poll loop never changes the destination directory.
C17_Serialized ==
    [][ /\ \A id \in 1..Len(created) :
              (fate[id] = "queued" /\ fate'[id] # "queued") =>
                 /\ hpc = "idle"
                 /\ id = Head(queue)
                 /\ queue' = Tail(queue)
                 /\ \A j \in Watched : j < id => fate[j] # "queued"
        /\ hpc = "copy" =>
              /\ hid' = hid
              /\ \A id \in 1..Len(created) : fate[id] = "queued" => fate'[id] = "queued"
              /\ SubSeq(queue', 1, Len(queue)) = queue
        /\ destDir' # destDir =>
              /\ hpc = "copy"
              /\ outcome' = "Copied"
              /\ hpc' = "idle"
              /\ <<wpc, observer, polled, sinceCheck, lastListed>>' =
                    <<wpc, observer, polled, sinceCheck, lastListed>>
        /\ (wpc' # wpc \/ lastListed' # lastListed \/ (polled' /\ ~polled)) =>
              destDir' = destDir ]_vars

\* C17 witness: the copy of the first event waits to retry while a second
\* qualifying event is queued behind it.
C17_Witness ==
    /\ hpc = "copy"
    /\ hid = 1
    /\ hwait > 0
    /\ queue = <<2>>
    /\ IsUpload(2)
    /\ fate[2] = "queued"

\* The entries of enumeration e in the order given by the permutation p.
Reordered(e, p) == [i \in 1..Len(e) |-> e[p[i]]]

\* C18 as stated: the listing of a directory is the same for every order
\* in which os.listdir may yield its entries.
C18_OrderIndependent ==
    listing.done =>
       \A p \in Permutations(1..Len(dirEntries)) :
          list_files_windows_style(Reordered(dirEntries, p), dotxml) = listing.files

\* The termination banners logged
Terminations == { i \in 1..Len(workerLog) : workerLog[i] = InfoTerminated }

\* C19: a run that started the observer leaves its loop only into the
\* finally block, with the observer stopped, whether by the stop event or
\* by an exception of the loop; from there it always comes to its end,
\* the observer joined and the termination logged once, as the last
\* message; before the end no termination is logged.
C19_AlwaysCleansUp ==
    /\ [][(wpc = "Running" /\ wpc' # "Running") =>
             (wpc' = "Stopping" /\ observer' = "stopped")]_vars
    /\ [](wpc \in {"Running", "Stopping"} => Terminations = {})
    /\ [](wpc = "Stopped" =>
             /\ observer = "joined"
             /\ Terminations = {Len(workerLog)})
    /\ (wpc = "Stopping") ~> (wpc = "Stopped")

\* C19 witness: the stop event never set, an exception of log_counts
\* ended the loop; the observer was stopped and joined and the termination
\* logged once.
C19_Witness ==
    /\ wpc = "Stopped"
    /\ raised
    /\ ~stop
    /\ observer = "joined"
    /\ workerLog = <<InfoStarted, InfoTerminated>>

=============================================================================
